---- MODULE Spec2Model ----
(***************************************************************************)
(* Model of the two command-line scripts of the repository:                *)
(*   scripts/extract_pdf.py  text extraction through pdfplumber            *)
(*   scripts/ocr_pdf.py      OCR through pdf2image + pytesseract           *)
(* One behaviour is one invocation of one script.  The libraries are the   *)
(* environment: what they return (page count, page text, an exception) is  *)
(* chosen nondeterministically at the step that calls them.                *)
(*                                                                         *)
(* Text is a sequence of one-character strings, so that len(), split()     *)
(* and join() are computed as Python computes them.  Paths and error       *)
(* messages are strings (only \o is applied to them).  A Python float is   *)
(* the exact rational [num, den]; the comparisons of the scripts are made  *)
(* on it by cross-multiplication (the operands are far below 2^53, where   *)
(* a correctly rounded quotient compares like the exact one).              *)
(***************************************************************************)
EXTENDS Integers, Sequences, FiniteSets, TLC

VARIABLES
    argv,         \* sys.argv; argv[1] is the script name (Python's sys.argv[0])
    missing,      \* environment: the modules that are not installed
    pc,           \* position of the invocation in the script
    pdf_path,     \* local pdf_path
    lang,         \* ocr_pdf.py: local lang
    total_pages,  \* local total_pages
    i,            \* number of pages already taken from pdf.pages / images
    text_parts,   \* extract_pdf.py: local text_parts
    all_text,     \* ocr_pdf.py: local all_text
    exc,          \* str(e) of the exception in flight
    stdout,       \* the records printed so far
    exitCode,     \* exit status, meaningful once pc = "done"
    opened,       \* the PDF was handed to pdfplumber.open / convert_from_path
    imported,     \* the modules imported so far
    seen          \* history: the text the library returned for each page

vars == <<argv, missing, pc, pdf_path, lang, total_pages, i, text_parts,
          all_text, exc, stdout, exitCode, opened, imported, seen>>

----------------------------------------------------------------------------
(* Bounds and inputs *)

MaxPages == 2

EXTRACT == "extract_pdf.py"
OCR == "ocr_pdf.py"

\* the files that exist on disk
ExistingFiles == {"doc.pdf"}

Rep(c, n) == [k \in 1..n |-> c]

Words5 == <<" ">> \o Rep("b", 5) \o <<" ">> \o Rep("c", 5) \o <<"\n">> \o Rep("d", 5)
            \o <<" ">> \o Rep("e", 5) \o <<"\t">> \o Rep("f", 5) \o <<"\n">>

\* the texts a page can yield
PageTexts ==
    { <<>>,
      <<" ", "\n">>,
      <<"a", "b">>,
      <<"a", "b", "c", "d">>,
      Rep("x", 20),
      Rep("x", 21),
      Rep("x", 25) \o <<"\f">>,
      Rep("x", 26),
      Rep("x", 26) \o <<" ", "a", " ", "b", "\n", "c", " ", "d", " ", "e">>,
      Rep("x", 64),
      Rep("x", 114) \o Words5,
      Rep("x", 115) \o Words5 }

\* str(e) of the exceptions the libraries raise on a damaged document
LibErrors == {"No /Root object! - Is this really a PDF?", "Unable to get page count."}

ArgTails ==
    { <<>>, <<"doc.pdf">>, <<"nofile.pdf">>, <<"--lang">>,
      <<"doc.pdf", "--lang">>, <<"doc.pdf", "--lang", "eng">> }

ExtractDeps == <<"pdfplumber">>
OcrDeps == <<"pdf2image", "pytesseract", "PIL">>

Range(s) == {s[k] : k \in 1..Len(s)}

----------------------------------------------------------------------------
(* Python built-ins used by the scripts *)

\* characters str.split() treats as separators
Whitespace == {" ", "\n", "\t", "\r", "\f"}

RECURSIVE SplitFrom(_, _)
\* the tokens of s[k..]: skip the separators, take the run up to the next one
SplitFrom(s, k) ==
    IF \A a \in k..Len(s) : s[a] \in Whitespace THEN <<>>
    ELSE LET a == CHOOSE a \in k..Len(s) :
                     /\ s[a] \notin Whitespace
                     /\ \A b \in k..(a - 1) : s[b] \in Whitespace
             e == CHOOSE e \in (a + 1)..(Len(s) + 1) :
                     /\ e = Len(s) + 1 \/ s[e] \in Whitespace
                     /\ \A c \in a..(e - 1) : s[c] \notin Whitespace
         IN  <<SubSeq(s, a, e - 1)>> \o SplitFrom(s, e)

\* s.split()
Split(s) == SplitFrom(s, 1)

RECURSIVE Join(_, _)
\* sep.join(parts)
Join(sep, parts) ==
    IF parts = <<>> THEN <<>>
    ELSE IF Len(parts) = 1 THEN parts[1]
    ELSE parts[1] \o sep \o Join(sep, Tail(parts))

RECURSIVE SumLen(_)
\* sum(len(w) for w in words)
SumLen(words) == IF words = <<>> THEN 0 ELSE Len(Head(words)) + SumLen(Tail(words))

\* number of words longer than n
CountLonger(words, n) == Cardinality({k \in 1..Len(words) : Len(words[k]) > n})

Digit == <<"0", "1", "2", "3", "4", "5", "6", "7", "8", "9">>

RECURSIVE Str(_)
\* str(n) for n >= 0
Str(n) == IF n < 10 THEN <<Digit[n + 1]>> ELSE Str(n \div 10) \o <<Digit[(n % 10) + 1]>>

Max(a, b) == IF a >= b THEN a ELSE b

\* a / b: ZeroDivisionError when b = 0
Div(a, b) ==
    IF b = 0 THEN [raised |-> TRUE, msg |-> "division by zero"]
    ELSE [raised |-> FALSE, num |-> a, den |-> b]

\* the results round(x, 2) can give, in hundredths; a value exactly halfway
\* between two hundredths goes either way, depending on the nearest double
Round2(x) ==
    LET q == (100 * x.num) \div x.den
        r == (100 * x.num) % x.den
    IN  IF 2 * r < x.den THEN {[num |-> q, den |-> 100]}
        ELSE IF 2 * r > x.den THEN {[num |-> q + 1, den |-> 100]}
        ELSE {[num |-> q, den |-> 100], [num |-> q + 1, den |-> 100]}

----------------------------------------------------------------------------
Init ==
    /\ argv \in {<<s>> \o t : s \in {OCR, EXTRACT}, t \in ArgTails}
    /\ missing \in SUBSET (IF argv[1] = EXTRACT THEN Range(ExtractDeps) ELSE Range(OcrDeps))
    /\ pc = "start"
    /\ pdf_path = ""
    /\ lang = ""
    /\ total_pages = 0
    /\ i = 0
    /\ text_parts = <<>>
    /\ all_text = <<>>
    /\ exc = ""
    /\ stdout = <<>>
    /\ exitCode = 0
    /\ opened = FALSE
    /\ imported = {}
    /\ seen = <<>>

\* print(json.dumps(rec)); sys.exit(code) or the end of the script
PrintAndExit(rec, code) ==
    /\ stdout' = Append(stdout, rec)
    /\ exitCode' = code
    /\ pc' = "done"

----------------------------------------------------------------------------
(* extract_pdf.py *)

LongWordLen == 20

\* import pdfplumber at module level: an ImportError is not caught, the
\* interpreter prints a traceback on stderr and exits with status 1
ExtImport ==
    /\ argv[1] = EXTRACT
    /\ pc = "start"
    /\ IF "pdfplumber" \in missing
       THEN /\ pc' = "done"
            /\ exitCode' = 1
            /\ UNCHANGED imported
       ELSE /\ pc' = "main"
            /\ imported' = imported \cup {"pdfplumber"}
            /\ UNCHANGED exitCode
    /\ UNCHANGED <<argv, missing, pdf_path, lang, total_pages, i, text_parts,
                   all_text, exc, stdout, opened, seen>>

ExtNoArgRecord == [success |-> FALSE, error |-> "No file path provided"]

ExtCheckArgs ==
    /\ argv[1] = EXTRACT
    /\ pc = "main"
    /\ IF Len(argv) < 2
       THEN /\ PrintAndExit(ExtNoArgRecord, 1)
            /\ UNCHANGED pdf_path
       ELSE /\ pdf_path' = argv[2]
            /\ pc' = "open"
            /\ UNCHANGED <<stdout, exitCode>>
    /\ UNCHANGED <<argv, missing, lang, total_pages, i, text_parts, all_text,
                   exc, opened, imported, seen>>

\* with pdfplumber.open(pdf_path) as pdf: total_pages = len(pdf.pages)
ExtOpen ==
    /\ argv[1] = EXTRACT
    /\ pc = "open"
    /\ opened' = TRUE
    /\ IF pdf_path \notin ExistingFiles
       THEN /\ exc' = "[Errno 2] No such file or directory: '" \o pdf_path \o "'"
            /\ pc' = "except"
            /\ UNCHANGED total_pages
       ELSE \/ \E m \in LibErrors :
                 /\ exc' = m
                 /\ pc' = "except"
                 /\ UNCHANGED total_pages
            \/ \E n \in 0..MaxPages :
                 /\ total_pages' = n
                 /\ pc' = "page"
                 /\ UNCHANGED exc
    /\ UNCHANGED <<argv, missing, pdf_path, lang, i, text_parts, all_text,
                   stdout, exitCode, imported, seen>>

\* one iteration of: for page in pdf.pages
ExtPage ==
    /\ argv[1] = EXTRACT
    /\ pc = "page"
    /\ i < total_pages
    /\ \/ \E m \in LibErrors :
            /\ exc' = m
            /\ pc' = "except"
            /\ UNCHANGED <<i, text_parts, seen>>
       \/ \E page_text \in PageTexts :
            /\ text_parts' = IF page_text # <<>> THEN Append(text_parts, page_text)
                             ELSE text_parts
            /\ seen' = Append(seen, page_text)
            /\ i' = i + 1
            /\ UNCHANGED <<exc, pc>>
    /\ UNCHANGED <<argv, missing, pdf_path, lang, total_pages, all_text,
                   stdout, exitCode, opened, imported>>

\* mutant: the division without its guard
AvgWordLength_Unguarded(words) == Div(SumLen(words), Len(words))

\* sum(len(w) for w in words) / len(words) if words else 0
AvgWordLength(words) ==
    IF words # <<>> THEN Div(SumLen(words), Len(words))
    ELSE [raised |-> FALSE, num |-> 0, den |-> 1]

\* mutant: only the pages that gave text are counted
ExtSuccessRecord_TextPages(full_text, pages, words, avg) ==
    [success |-> TRUE,
     text |-> full_text,
     pages |-> Len(text_parts),
     chars |-> Len(full_text),
     quality |-> [avgWordLength |-> avg,
                  longWordCount |-> CountLonger(words, LongWordLen),
                  wordCount |-> Len(words)]]

ExtSuccessRecord(full_text, pages, words, avg) ==
    [success |-> TRUE,
     text |-> full_text,
     pages |-> pages,
     chars |-> Len(full_text),
     quality |-> [avgWordLength |-> avg,
                  longWordCount |-> CountLonger(words, LongWordLen),
                  wordCount |-> Len(words)]]

\* after the loop: join, metrics, return, print
ExtFinish ==
    /\ argv[1] = EXTRACT
    /\ pc = "page"
    /\ i = total_pages
    /\ LET full_text == Join(<<"\n", "\n">>, text_parts)
           words == Split(full_text)
           avg_word_length == AvgWordLength(words)
       IN  IF avg_word_length.raised
           THEN /\ exc' = avg_word_length.msg
                /\ pc' = "except"
                /\ UNCHANGED <<stdout, exitCode>>
           ELSE /\ \E avg \in Round2(avg_word_length) :
                     PrintAndExit(ExtSuccessRecord(full_text, total_pages, words, avg), 0)
                /\ UNCHANGED exc
    /\ UNCHANGED <<argv, missing, pdf_path, lang, total_pages, i, text_parts,
                   all_text, opened, imported, seen>>

\* mutant: the text gathered before the exception is returned
ExtErrorRecord_Partial(e) ==
    [success |-> FALSE, error |-> e, text |-> Join(<<"\n", "\n">>, text_parts)]

ExtErrorRecord(e) == [success |-> FALSE, error |-> e, text |-> <<>>]

\* except Exception as e: return the error record; the caller prints it and
\* the script ends
ExtExcept ==
    /\ argv[1] = EXTRACT
    /\ pc = "except"
    /\ PrintAndExit(ExtErrorRecord(exc), 0)
    /\ UNCHANGED <<argv, missing, pdf_path, lang, total_pages, i, text_parts,
                   all_text, exc, opened, imported, seen>>

ExtNext == ExtImport \/ ExtCheckArgs \/ ExtOpen \/ ExtPage \/ ExtFinish \/ ExtExcept

----------------------------------------------------------------------------
(* ocr_pdf.py *)

AvgLow == 3
AvgHigh == 15
OcrLongWordLen == 25

\* the float literals of the quality score
Q03 == [num |-> 3, den |-> 10]
Q05 == [num |-> 5, den |-> 10]
Q08 == [num |-> 8, den |-> 10]

OcrNoArgRecord == [success |-> FALSE, error |-> "No PDF path provided"]

\* mutant: the missing argument is reported with exit status 0
OcrCheckArgs_ExitZero ==
    /\ argv[1] = OCR
    /\ pc = "start"
    /\ IF Len(argv) < 2
       THEN /\ PrintAndExit(OcrNoArgRecord, 0)
            /\ UNCHANGED pdf_path
       ELSE /\ pdf_path' = argv[2]
            /\ pc' = "lang"
            /\ UNCHANGED <<stdout, exitCode>>
    /\ UNCHANGED <<argv, missing, lang, total_pages, i, text_parts, all_text,
                   exc, opened, imported, seen>>

OcrCheckArgs ==
    /\ argv[1] = OCR
    /\ pc = "start"
    /\ IF Len(argv) < 2
       THEN /\ PrintAndExit(OcrNoArgRecord, 1)
            /\ UNCHANGED pdf_path
       ELSE /\ pdf_path' = argv[2]
            /\ pc' = "lang"
            /\ UNCHANGED <<stdout, exitCode>>
    /\ UNCHANGED <<argv, missing, lang, total_pages, i, text_parts, all_text,
                   exc, opened, imported, seen>>

\* sys.argv.index(x), 0-based, for x in sys.argv
Index(a, x) == (CHOOSE k \in 1..Len(a) : a[k] = x /\ \A j \in 1..(k - 1) : a[j] # x) - 1

\* lang = "ind+eng", replaced by the argument that follows --lang
OcrParseLang ==
    /\ argv[1] = OCR
    /\ pc = "lang"
    /\ lang' = IF "--lang" \in Range(argv) /\ Index(argv, "--lang") + 1 < Len(argv)
               THEN argv[(Index(argv, "--lang") + 1) + 1]
               ELSE "ind+eng"
    /\ pc' = "exists"
    /\ UNCHANGED <<argv, missing, pdf_path, total_pages, i, text_parts, all_text,
                   exc, stdout, exitCode, opened, imported, seen>>

OcrNotFoundRecord(path) == [success |-> FALSE, error |-> "File not found: " \o path]

\* mutant: the existence test is left out
OcrCheckExists_Skipped ==
    /\ argv[1] = OCR
    /\ pc = "exists"
    /\ pc' = "import"
    /\ UNCHANGED <<argv, missing, pdf_path, lang, total_pages, i, text_parts,
                   all_text, exc, stdout, exitCode, opened, imported, seen>>

\* if not os.path.exists(pdf_path)
OcrCheckExists ==
    /\ argv[1] = OCR
    /\ pc = "exists"
    /\ IF pdf_path \notin ExistingFiles
       THEN PrintAndExit(OcrNotFoundRecord(pdf_path), 1)
       ELSE /\ pc' = "import"
            /\ UNCHANGED <<stdout, exitCode>>
    /\ UNCHANGED <<argv, missing, pdf_path, lang, total_pages, i, text_parts,
                   all_text, exc, opened, imported, seen>>

\* the three imports at the head of the try block, in order; the first
\* module that is not installed raises ImportError
OcrImport ==
    /\ argv[1] = OCR
    /\ pc = "import"
    /\ IF \E k \in 1..Len(OcrDeps) : OcrDeps[k] \in missing
       THEN LET k == CHOOSE k \in 1..Len(OcrDeps) :
                        /\ OcrDeps[k] \in missing
                        /\ \A j \in 1..(k - 1) : OcrDeps[j] \notin missing
            IN  /\ imported' = imported \cup {OcrDeps[j] : j \in 1..(k - 1)}
                /\ exc' = "No module named '" \o OcrDeps[k] \o "'"
                /\ pc' = "importerror"
       ELSE /\ imported' = imported \cup Range(OcrDeps)
            /\ pc' = "convert"
            /\ UNCHANGED exc
    /\ UNCHANGED <<argv, missing, pdf_path, lang, total_pages, i, text_parts,
                   all_text, stdout, exitCode, opened, seen>>

\* images = convert_from_path(...); total_pages = len(images)
OcrConvert ==
    /\ argv[1] = OCR
    /\ pc = "convert"
    /\ opened' = TRUE
    /\ \/ \E m \in LibErrors :
            /\ exc' = m
            /\ pc' = "except"
            /\ UNCHANGED total_pages
       \/ \E n \in 0..MaxPages :
            /\ total_pages' = n
            /\ pc' = "page"
            /\ UNCHANGED exc
    /\ UNCHANGED <<argv, missing, pdf_path, lang, i, text_parts, all_text,
                   stdout, exitCode, imported, seen>>

\* mutant: the marker carries the 0-based index
PageBlock_ZeroBased(k, page_text) ==
    <<"-", "-", "-", " ", "P", "a", "g", "e", " ">> \o Str(k)
        \o <<" ", "-", "-", "-", "\n">> \o page_text

\* f"--- Page {i+1} ---\n{page_text}", k the 0-based index of enumerate
PageBlock(k, page_text) ==
    <<"-", "-", "-", " ", "P", "a", "g", "e", " ">> \o Str(k + 1)
        \o <<" ", "-", "-", "-", "\n">> \o page_text

\* one iteration of: for i, image in enumerate(images)
OcrPage ==
    /\ argv[1] = OCR
    /\ pc = "page"
    /\ i < total_pages
    /\ \/ \E m \in LibErrors :
            /\ exc' = m
            /\ pc' = "except"
            /\ UNCHANGED <<i, all_text, seen>>
       \/ \E page_text \in PageTexts :
            /\ all_text' = Append(all_text, PageBlock(i, page_text))
            /\ seen' = Append(seen, page_text)
            /\ i' = i + 1
            /\ UNCHANGED <<exc, pc>>
    /\ UNCHANGED <<argv, missing, pdf_path, lang, total_pages, text_parts,
                   stdout, exitCode, opened, imported>>

\* mutant: the bounds 3 and 15 are excluded from the normal range
Quality_Exclusive(avg_word_len, long_word_ratio) ==
    IF \/ avg_word_len.num <= AvgLow * avg_word_len.den
       \/ avg_word_len.num >= AvgHigh * avg_word_len.den
    THEN Q03
    ELSE IF 10 * long_word_ratio.num > long_word_ratio.den
    THEN Q05
    ELSE Q08

\* the if / elif / else on avg_word_len and long_word_ratio
Quality(avg_word_len, long_word_ratio) ==
    IF \/ avg_word_len.num < AvgLow * avg_word_len.den
       \/ avg_word_len.num > AvgHigh * avg_word_len.den
    THEN Q03
    ELSE IF 10 * long_word_ratio.num > long_word_ratio.den
    THEN Q05
    ELSE Q08

OcrSuccessRecord(full_text, pages, words, avg, quality) ==
    [success |-> TRUE,
     text |-> full_text,
     pages |-> pages,
     chars |-> Len(full_text),
     words |-> Len(words),
     avgWordLen |-> avg,
     quality |-> quality,
     method |-> "tesseract_ocr"]

\* after the loop: join, metrics, quality, print; main returns
OcrFinish ==
    /\ argv[1] = OCR
    /\ pc = "page"
    /\ i = total_pages
    /\ LET full_text == Join(<<"\n", "\n">>, all_text)
           words == Split(full_text)
           word_count == Len(words)
           avg_word_len == Div(SumLen(words), Max(1, word_count))
           long_words == CountLonger(words, OcrLongWordLen)
           long_word_ratio == Div(long_words, Max(1, word_count))
       IN  \E avg \in Round2(avg_word_len) :
               PrintAndExit(OcrSuccessRecord(full_text, total_pages, words, avg,
                                             Quality(avg_word_len, long_word_ratio)), 0)
    /\ UNCHANGED <<argv, missing, pdf_path, lang, total_pages, i, text_parts,
                   all_text, exc, opened, imported, seen>>

OcrMissingDepRecord(e) ==
    [success |-> FALSE,
     error |-> "Missing dependency: " \o e
               \o ". Install with: pip install pdf2image pytesseract Pillow"]

\* except ImportError as e
OcrImportError ==
    /\ argv[1] = OCR
    /\ pc = "importerror"
    /\ PrintAndExit(OcrMissingDepRecord(exc), 1)
    /\ UNCHANGED <<argv, missing, pdf_path, lang, total_pages, i, text_parts,
                   all_text, exc, opened, imported, seen>>

\* mutant: the blocks of the pages recognized so far are returned
OcrErrorRecord_Partial(e) ==
    [success |-> FALSE, error |-> e, text |-> Join(<<"\n", "\n">>, all_text)]

OcrErrorRecord(e) == [success |-> FALSE, error |-> e]

\* mutant: the handler prints and falls off the end of main
OcrExcept_NoExit ==
    /\ argv[1] = OCR
    /\ pc = "except"
    /\ PrintAndExit(OcrErrorRecord(exc), 0)
    /\ UNCHANGED <<argv, missing, pdf_path, lang, total_pages, i, text_parts,
                   all_text, exc, opened, imported, seen>>

\* except Exception as e
OcrExcept ==
    /\ argv[1] = OCR
    /\ pc = "except"
    /\ PrintAndExit(OcrErrorRecord(exc), 1)
    /\ UNCHANGED <<argv, missing, pdf_path, lang, total_pages, i, text_parts,
                   all_text, exc, opened, imported, seen>>

Next ==
    \/ ExtImport
    \/ ExtCheckArgs
    \/ ExtOpen
    \/ ExtPage
    \/ ExtFinish
    \/ ExtExcept
    \/ OcrCheckArgs
    \/ OcrParseLang
    \/ OcrCheckExists
    \/ OcrImport
    \/ OcrConvert
    \/ OcrPage
    \/ OcrFinish
    \/ OcrImportError
    \/ OcrExcept

Spec == Init /\ [][Next]_vars

----------------------------------------------------------------------------
(* Vocabulary of the properties *)

Done == pc = "done"
ExtRun == argv[1] = EXTRACT
OcrRun == argv[1] = OCR
HasPath == Len(argv) >= 2
Printed == Len(stdout) >= 1
Succeeded == Done /\ Printed /\ stdout[1].success
Failed == Done /\ Printed /\ ~stdout[1].success

\* the exception in flight was raised by the library (not by the script's
\* own arithmetic)
LibraryRaised ==
    \/ exc \in LibErrors
    \/ exc = "[Errno 2] No such file or directory: '" \o pdf_path \o "'"

\* a record that carries nothing of an extraction
NoPartialResult(rec) ==
    /\ DOMAIN rec \subseteq {"success", "error", "text"}
    /\ "text" \in DOMAIN rec => rec.text = <<>>

----------------------------------------------------------------------------
(* C1: on every successful OCR run, quality is 0.3 when the average token  *)
(* length of the output text is below 3 or above 15 (the average of no     *)
(* token being 0), else 0.5 when more than 10% of the tokens are longer    *)
(* than 25 characters, else 0.8; 3, 15 and 10% themselves are in range.    *)
C1_QualityOf(tokens) ==
    LET n == Len(tokens)
        total == SumLen(tokens)
        long == Cardinality({k \in 1..n : Len(tokens[k]) >= 26})
    IN  IF n = 0 \/ total < 3 * n \/ total > 15 * n THEN Q03
        ELSE IF 10 * long > n THEN Q05
        ELSE Q08

C2_PagesAndChars ==
    (ExtRun /\ Done /\ opened /\ ~LibraryRaised) =>
        /\ Len(stdout) = 1
        /\ stdout[1].success
        /\ stdout[1].pages = Len(seen)
        /\ stdout[1].chars = Len(stdout[1].text)

\* two pages, the first without text, the second with text
C2_Witness ==
    /\ ExtRun /\ Succeeded
    /\ Len(seen) = 2 /\ seen[1] = <<>> /\ seen[2] # <<>>
    /\ stdout[1].pages = 2
    /\ stdout[1].chars > 0

(* C3: when every page of the PDF yields no text (a PDF without pages      *)
(* included), the text extractor prints a success record with empty text,  *)
(* chars 0, wordCount 0, longWordCount 0 and avgWordLength 0; no division  *)
(* by zero is ever raised and no error record is printed.                  *)
C3_EmptyText ==
    /\ ExtRun => exc # "division by zero"
    /\ (ExtRun /\ Done /\ opened /\ ~LibraryRaised
            /\ \A k \in 1..Len(seen) : seen[k] = <<>>) =>
        /\ Len(stdout) = 1
        /\ stdout[1].success
        /\ stdout[1].text = <<>>
        /\ stdout[1].chars = 0
        /\ stdout[1].quality.wordCount = 0
        /\ stdout[1].quality.longWordCount = 0
        /\ stdout[1].quality.avgWordLength.num = 0

C3_Witness ==
    /\ ExtRun /\ Succeeded
    /\ Len(seen) = 2 /\ seen[1] = <<>> /\ seen[2] = <<>>
    /\ stdout[1].quality.wordCount = 0

(* C4: when the first argument of the OCR script names no existing file,   *)
(* the script prints exactly {success:false, error:"File not found:        *)
(* <path>"} and exits with status 1, and it never imports a dependency nor *)
(* rasterizes, whatever dependencies are missing.                          *)
C4_FileNotFound ==
    (OcrRun /\ HasPath /\ argv[2] \notin ExistingFiles) =>
        /\ imported = {}
        /\ ~opened
        /\ pc \in {"start", "lang", "exists", "done"}
        /\ Done =>
            /\ stdout = <<[success |-> FALSE, error |-> "File not found: " \o argv[2]]>>
            /\ exitCode = 1

C4_Witness ==
    /\ OcrRun /\ Done
    /\ pdf_path = "nofile.pdf"
    /\ missing = {"pdf2image", "pytesseract", "PIL"}
    /\ Printed
    /\ stdout[1].error = "File not found: nofile.pdf"

(* C5 as stated: either script, run without a path argument, prints        *)
(* {success:false, error:"No file path provided"} and exits with status 1  *)
(* without trying to open a file.                                          *)
C5_Original ==
    (~HasPath /\ Done) =>
        /\ stdout = <<[success |-> FALSE, error |-> "No file path provided"]>>
        /\ exitCode = 1
        /\ ~opened

(* C5 amended: run without a path argument, both scripts exit with status  *)
(* 1 without trying to open a file; ocr_pdf.py prints {success:false,      *)
(* error:"No PDF path provided"}; extract_pdf.py prints {success:false,    *)
(* error:"No file path provided"} when pdfplumber is importable and prints *)
(* no record when it is not.                                               *)
C5_NoArgument ==
    (~HasPath /\ Done) =>
        /\ exitCode = 1
        /\ ~opened
        /\ OcrRun => stdout = <<[success |-> FALSE, error |-> "No PDF path provided"]>>
        /\ (ExtRun /\ "pdfplumber" \notin missing) =>
               stdout = <<[success |-> FALSE, error |-> "No file path provided"]>>
        /\ (ExtRun /\ "pdfplumber" \in missing) => stdout = <<>>

C5_Witness ==
    /\ OcrRun /\ ~HasPath /\ Done
    /\ stdout[1].error = "No PDF path provided"
    /\ exitCode = 1

(* C6: given a path argument, any exception raised while the text          *)
(* extractor opens the PDF or extracts a page is caught; the script prints *)
(* the single record {success:false, error:<message>, text:""}, without    *)
(* the text of the pages extracted before, and ends with status 0.         *)
C6_ExceptionCaught ==
    (ExtRun /\ HasPath /\ Done /\ LibraryRaised) =>
        /\ stdout = <<[success |-> FALSE, error |-> exc, text |-> <<>>]>>
        /\ exitCode = 0

\* the second page raises after the first one gave text
C6_Witness ==
    /\ ExtRun /\ Done
    /\ exc \in LibErrors
    /\ total_pages = 2 /\ Len(seen) = 1 /\ text_parts # <<>>
    /\ ~stdout[1].success

(* C7: an invocation of the OCR script never prints more than one record,  *)
(* and when it ends it has printed exactly one; its exit status is 1       *)
(* exactly when that record has success false.                             *)
C7_OcrExitStatus ==
    OcrRun =>
        /\ Len(stdout) <= 1
        /\ Printed => Done
        /\ Done =>
            /\ Len(stdout) = 1
            /\ exitCode \in {0, 1}
            /\ exitCode = 1 <=> ~stdout[1].success

\* a dependency is missing for an existing file
C7_Witness ==
    /\ OcrRun /\ Failed
    /\ pdf_path \in ExistingFiles
    /\ "pytesseract" \in missing
    /\ exc = "No module named 'pytesseract'"
    /\ exitCode = 1

(* C8 as stated: in both scripts a record with success false carries no    *)
(* partial extraction result and the process exits with a non-zero status. *)
C8_Original ==
    Failed =>
        /\ NoPartialResult(stdout[1])
        /\ exitCode # 0

(* C8 amended: in both scripts a record with success false carries no      *)
(* partial extraction result and ends the invocation; the exit status is   *)
(* non-zero except when extract_pdf.py, given a path argument, reports an  *)
(* exception caught in extract_text: it then exits with status 0.          *)
C8_TerminalErrors ==
    Failed =>
        /\ NoPartialResult(stdout[1])
        /\ exitCode = 0 <=> (ExtRun /\ HasPath)

C8_Witness ==
    /\ ExtRun /\ Failed
    /\ pdf_path = "nofile.pdf"
    /\ exitCode = 0

(* C9: every record the text extractor prints is either a success record   *)
(* with text, pages, chars and quality{avgWordLength, longWordCount,       *)
(* wordCount}, or a failure record with both error and text.               *)
C9_RecordShapes ==
    ExtRun =>
        \A k \in 1..Len(stdout) :
            \/ /\ stdout[k].success
               /\ DOMAIN stdout[k] = {"success", "text", "pages", "chars", "quality"}
               /\ DOMAIN stdout[k].quality = {"avgWordLength", "longWordCount", "wordCount"}
            \/ /\ ~stdout[k].success
               /\ DOMAIN stdout[k] = {"success", "error", "text"}

(* C10: on every successful OCR run, text is the blocks "--- Page k ---"   *)
(* + newline + OCR text of page k, for k = 1..pages in order, joined by a  *)
(* blank line; words, chars and avgWordLen are computed over that text, so *)
(* every page adds the four tokens of its marker, words >= 4 * pages, and  *)
(* words = 0 (with avgWordLen 0 and quality 0.3) only without pages.       *)
RECURSIVE C10_TextFrom(_, _)
C10_TextFrom(texts, k) ==
    IF k > Len(texts) THEN <<>>
    ELSE (IF k > 1 THEN <<"\n", "\n">> ELSE <<>>)
         \o <<"-", "-", "-", " ", "P", "a", "g", "e", " ">> \o Str(k)
         \o <<" ", "-", "-", "-">> \o <<"\n">> \o texts[k]
         \o C10_TextFrom(texts, k + 1)

RECURSIVE C10_TokensOfPages(_)
C10_TokensOfPages(texts) ==
    IF texts = <<>> THEN 0
    ELSE 4 + Len(Split(Head(texts))) + C10_TokensOfPages(Tail(texts))

C10_MarkedText ==
    (OcrRun /\ Succeeded) =>
        LET rec == stdout[1]
            tokens == Split(rec.text)
        IN  /\ rec.pages = Len(seen)
            /\ rec.text = C10_TextFrom(seen, 1)
            /\ rec.chars = Len(rec.text)
            /\ rec.words = Len(tokens)
            /\ rec.words = C10_TokensOfPages(seen)
            /\ rec.words >= 4 * rec.pages
            /\ rec.words > 0 =>
                   rec.avgWordLen \in Round2([num |-> SumLen(tokens), den |-> rec.words])
            /\ rec.words = 0 <=> rec.pages = 0
            /\ rec.words = 0 => (rec.avgWordLen.num = 0 /\ rec.quality = Q03)

\* two pages without recognized text: eight tokens, all from the markers
C10_Witness ==
    /\ OcrRun /\ Succeeded
    /\ Len(seen) = 2 /\ seen[1] = <<>> /\ seen[2] = <<>>
    /\ stdout[1].words = 8
====
